---- MODULE Spec2Model ----
(***************************************************************************)
(* Model of ADS1115_demo.py: the byte swap, the readAdc register exchange  *)
(* (config write, status poll, conversion read) against an I2C transport   *)
(* that may answer any word or raise IOError, and the demo sampling loop.  *)
(***************************************************************************)
EXTENDS Integers, Sequences, FiniteSets, TLC

VARIABLES
    pc,         \* position inside readAdc
    channel,    \* readAdc's argument
    config,     \* readAdc local: the command word
    status,     \* readAdc local: last byte-swapped status word
    result,     \* readAdc local: byte-swapped conversion word
    ret,        \* <<v>> once readAdc has returned v, <<>> before
    exc,        \* exception raised out of readAdc (None if none)
    busLog,     \* register accesses seen by the bus, in order
    calls,      \* readAdc calls made by the test caller
    mainpc,     \* position inside the __main__ block
    i,          \* loop variable of "for i in range(0,4)"
    val,        \* __main__ local: <<v>> for the last readAdc return value
    s,          \* __main__ local: the line being built
    printed,    \* result lines printed so far
    a,          \* codec check: the host word
    wire,       \* codec check: <<swap(a)>> once computed
    back        \* codec check: <<swap(swap(a))>> once computed

vars == <<pc, channel, config, status, result, ret, exc, busLog, calls,
          mainpc, i, val, s, printed, a, wire, back>>

drv  == <<pc, channel, config, status, result, ret, exc, busLog>>
main == <<mainpc, i, val, s, printed>>
codec == <<a, wire, back>>

None == "None"

(***************************************************************************)
(* Bounds                                                                  *)
(***************************************************************************)
MaxPolls  == 3      \* status reads followed within one call
MaxCalls  == 2      \* readAdc calls made by the test caller
MaxCycles == 2      \* sample cycles of the demo loop that are followed

(***************************************************************************)
(* Python integer operators on non-negative ints                           *)
(***************************************************************************)
RECURSIVE BitAnd(_, _)
BitAnd(x, y) ==
    IF x = 0 \/ y = 0 THEN 0
    ELSE (x % 2) * (y % 2) + 2 * BitAnd(x \div 2, y \div 2)

RECURSIVE BitOr(_, _)
BitOr(x, y) ==
    IF x = 0 THEN y
    ELSE IF y = 0 THEN x
    ELSE (IF (x % 2) + (y % 2) > 0 THEN 1 ELSE 0) + 2 * BitOr(x \div 2, y \div 2)

ShiftRight(x, n) == x \div (2 ^ n)
ShiftLeft(x, n)  == x * (2 ^ n)

(***************************************************************************)
(* Module-level values                                                     *)
(***************************************************************************)
addr == 72                                  \* 0x48

DEVICE_REG_CONVERSION == 0
DEVICE_REG_CONFIG     == 1
DEVICE_REG_LO_THRESH  == 2
DEVICE_REG_HI_THRESH  == 3

CONFIG_OS                       == 32768    \* 0x8000
CONFIG_OS_START                 == 32768    \* 0x8000
CONFIG_OS_PERFORMING_CONVERSION == 0
CONFIG_MUX_AIN0P_GNDN           == 16384    \* 0x4000
CONFIG_FSR_4V096                == 512      \* 0x0200
CONFIG_MODE_SINGLE_SHOT         == 256      \* 0x0100
CONFIG_DATA_RATE_128SPS         == 128      \* 0x0080
CONFIG_COMP_MODE_TRADITIONAL    == 0
CONFIG_COMP_POL_ACTIVE_LOW      == 0
CONFIG_COMP_LAT_NON_LATCHING    == 0
CONFIG_COMP_QUE_DISABLE         == 3

(***************************************************************************)
(* swap: exchange the high and low bytes of a word                         *)
(***************************************************************************)
\* a shift typed as 4 instead of 8 for the low byte
swap_shortShift(x) ==
    BitOr(ShiftRight(BitAnd(x, 65280), 8), ShiftLeft(BitAnd(x, 255), 4))

swap(x) ==
    BitOr(ShiftRight(BitAnd(x, 65280), 8), ShiftLeft(BitAnd(x, 255), 8))

(***************************************************************************)
(* Inputs: channels the test caller passes, words the device may answer    *)
(***************************************************************************)
ChannelsBelow == 2     \* how far below 0 the tried channels go
ChannelsAbove == 2     \* how far above 3 the tried channels go
Channels == (0 - ChannelsBelow) .. (3 + ChannelsAbove)

\* wire words for the config register: 0x8363, 0x8000 read back as busy
\* (0x6383, 0x0080 after the swap), 0x83E3, 0x0080 as idle (0xE383, 0x8000)
StatusWords == {33635, 32768, 33763, 128}

\* wire words for the conversion register: 0x0000 0x1234 0x0080 0x8000
\* 0xFF7F 0xFFFF
ConvWords == {0, 4660, 128, 32768, 65407, 65535}

AllWords == 0 .. 65535

(***************************************************************************)
(* The bus: every register access is recorded in busLog                    *)
(***************************************************************************)
BusWrite(ad, reg, w, good) ==
    [op |-> "write", addr |-> ad, reg |-> reg, word |-> w, ok |-> good]

BusRead(ad, reg, w, good) ==
    [op |-> "read", addr |-> ad, reg |-> reg, word |-> w, ok |-> good]

(***************************************************************************)
(* readAdc                                                                 *)
(***************************************************************************)
\* the sanity check without its lower bound
ChannelOutOfRange_upperOnly(c) == (c > 3)

ChannelOutOfRange(c) == (c > 3) \/ (c < 0)

\* the command without the single-ended mux base
BuildCommand_differentialMux(c) ==
    CONFIG_OS_START +
    ShiftLeft(c, 12) +
    CONFIG_FSR_4V096 +
    CONFIG_MODE_SINGLE_SHOT +
    CONFIG_DATA_RATE_128SPS +
    CONFIG_COMP_MODE_TRADITIONAL +
    CONFIG_COMP_POL_ACTIVE_LOW +
    CONFIG_COMP_LAT_NON_LATCHING +
    CONFIG_COMP_QUE_DISABLE

\* the channel shifted by 13 instead of 12
BuildCommand_shift13(c) ==
    CONFIG_OS_START +
    CONFIG_MUX_AIN0P_GNDN +
    ShiftLeft(c, 13) +
    CONFIG_FSR_4V096 +
    CONFIG_MODE_SINGLE_SHOT +
    CONFIG_DATA_RATE_128SPS +
    CONFIG_COMP_MODE_TRADITIONAL +
    CONFIG_COMP_POL_ACTIVE_LOW +
    CONFIG_COMP_LAT_NON_LATCHING +
    CONFIG_COMP_QUE_DISABLE

BuildCommand(c) ==
    CONFIG_OS_START +
    CONFIG_MUX_AIN0P_GNDN +
    ShiftLeft(c, 12) +
    CONFIG_FSR_4V096 +
    CONFIG_MODE_SINGLE_SHOT +
    CONFIG_DATA_RATE_128SPS +
    CONFIG_COMP_MODE_TRADITIONAL +
    CONFIG_COMP_POL_ACTIVE_LOW +
    CONFIG_COMP_LAT_NON_LATCHING +
    CONFIG_COMP_QUE_DISABLE

\* the status test with the polarity of the OS bit reversed
ConversionComplete_inverted(st) ==
    BitAnd(st, CONFIG_OS) = CONFIG_OS_PERFORMING_CONVERSION

ConversionComplete(st) ==
    BitAnd(st, CONFIG_OS) # CONFIG_OS_PERFORMING_CONVERSION

InCall == pc \in {"Validate", "BuildConfig", "ConfiguringWrite", "Polling",
                  "ReadingResult"}
Returned == pc \in {"Rejected", "Done", "Failed"}

\* the last returned value kept and handed back when the same channel is
\* asked for again
Enter_memoised(c) ==
    /\ channel' = c
    /\ config' = None
    /\ status' = None
    /\ result' = None
    /\ exc' = None
    /\ IF ret # <<>> /\ channel = c
       THEN pc' = "Done" /\ ret' = ret
       ELSE pc' = "Validate" /\ ret' = <<>>

\* entry into readAdc(c): fresh locals
Enter(c) ==
    /\ channel' = c
    /\ pc' = "Validate"
    /\ config' = None
    /\ status' = None
    /\ result' = None
    /\ ret' = <<>>
    /\ exc' = None

\* if ((channel > 3) or (channel < 0)): return -1
SanityCheck ==
    /\ pc = "Validate"
    /\ IF ChannelOutOfRange(channel)
       THEN pc' = "Rejected" /\ ret' = <<-1>>
       ELSE pc' = "BuildConfig" /\ ret' = ret
    /\ UNCHANGED <<channel, config, status, result, exc, busLog>>
    /\ UNCHANGED <<calls, main, codec>>

\* config = (CONFIG_OS_START + ... )
BuildConfig ==
    /\ pc = "BuildConfig"
    /\ config' = BuildCommand(channel)
    /\ pc' = "ConfiguringWrite"
    /\ UNCHANGED <<channel, status, result, ret, exc, busLog>>
    /\ UNCHANGED <<calls, main, codec>>

\* the command written in host byte order
WriteConfig_noSwap ==
    /\ pc = "ConfiguringWrite"
    /\ busLog' = Append(busLog, BusWrite(addr, DEVICE_REG_CONFIG, config, TRUE))
    /\ pc' = "Polling"
    /\ UNCHANGED <<channel, config, status, result, ret, exc>>
    /\ UNCHANGED <<calls, main, codec>>

\* the conversion register read right after the write, without a status read
WriteConfig_skipPoll ==
    /\ pc = "ConfiguringWrite"
    /\ busLog' = Append(busLog, BusWrite(addr, DEVICE_REG_CONFIG, swap(config), TRUE))
    /\ pc' = "ReadingResult"
    /\ UNCHANGED <<channel, config, status, result, ret, exc>>
    /\ UNCHANGED <<calls, main, codec>>

\* bus.write_word_data(addr, DEVICE_REG_CONFIG, swap(config)) succeeds
WriteConfig ==
    /\ pc = "ConfiguringWrite"
    /\ busLog' = Append(busLog, BusWrite(addr, DEVICE_REG_CONFIG, swap(config), TRUE))
    /\ pc' = "Polling"
    /\ UNCHANGED <<channel, config, status, result, ret, exc>>
    /\ UNCHANGED <<calls, main, codec>>

\* the IOError of the write caught and dropped inside readAdc
WriteConfigRaises_ignored ==
    /\ pc = "ConfiguringWrite"
    /\ busLog' = Append(busLog, BusWrite(addr, DEVICE_REG_CONFIG, swap(config), FALSE))
    /\ pc' = "Polling"
    /\ UNCHANGED <<channel, config, status, result, ret, exc>>
    /\ UNCHANGED <<calls, main, codec>>

\* bus.write_word_data raises IOError; nothing in readAdc catches it
WriteConfigRaises ==
    /\ pc = "ConfiguringWrite"
    /\ busLog' = Append(busLog, BusWrite(addr, DEVICE_REG_CONFIG, swap(config), FALSE))
    /\ exc' = "IOError"
    /\ pc' = "Failed"
    /\ UNCHANGED <<channel, config, status, result, ret>>
    /\ UNCHANGED <<calls, main, codec>>

\* passes of the while loop made so far by the call in progress: the status
\* reads recorded since its config write
StatusReads(log) ==
    LET writes == {k \in 1..Len(log) : log[k].op = "write"}
        start  == IF writes = {} THEN 0
                  ELSE CHOOSE k \in writes : \A j \in writes : j <= k
    IN  Cardinality({k \in (start + 1)..Len(log) :
                        log[k].op = "read" /\ log[k].reg = DEVICE_REG_CONFIG})

\* the loop given up with a timeout after a second busy status
ReadStatus_timeout(w) ==
    /\ pc = "Polling"
    /\ StatusReads(busLog) < MaxPolls
    /\ busLog' = Append(busLog, BusRead(addr, DEVICE_REG_CONFIG, w, TRUE))
    /\ status' = swap(w)
    /\ IF ConversionComplete(status')
       THEN pc' = "ReadingResult" /\ exc' = exc
       ELSE IF StatusReads(busLog) >= 1
            THEN pc' = "Failed" /\ exc' = "Timeout"
            ELSE pc' = "Polling" /\ exc' = exc
    /\ UNCHANGED <<channel, config, result, ret>>
    /\ UNCHANGED <<calls, main, codec>>

\* the loop without its break: the status is read again whatever it says
ReadStatus_noBreak(w) ==
    /\ pc = "Polling"
    /\ StatusReads(busLog) < MaxPolls
    /\ busLog' = Append(busLog, BusRead(addr, DEVICE_REG_CONFIG, w, TRUE))
    /\ status' = swap(w)
    /\ pc' = "Polling"
    /\ UNCHANGED <<channel, config, result, ret, exc>>
    /\ UNCHANGED <<calls, main, codec>>

\* one pass of the while loop: status = swap(bus.read_word_data(...)), test
ReadStatus(w) ==
    /\ pc = "Polling"
    /\ StatusReads(busLog) < MaxPolls
    /\ busLog' = Append(busLog, BusRead(addr, DEVICE_REG_CONFIG, w, TRUE))
    /\ status' = swap(w)
    /\ pc' = IF ConversionComplete(status') THEN "ReadingResult" ELSE "Polling"
    /\ UNCHANGED <<channel, config, result, ret, exc>>
    /\ UNCHANGED <<calls, main, codec>>

\* the IOError of a status read caught inside the loop, which polls again
ReadStatusRaises_retried ==
    /\ pc = "Polling"
    /\ StatusReads(busLog) < MaxPolls
    /\ busLog' = Append(busLog, BusRead(addr, DEVICE_REG_CONFIG, 0, FALSE))
    /\ pc' = "Polling"
    /\ UNCHANGED <<channel, config, status, result, ret, exc>>
    /\ UNCHANGED <<calls, main, codec>>

\* bus.read_word_data(addr, DEVICE_REG_CONFIG) raises IOError
ReadStatusRaises ==
    /\ pc = "Polling"
    /\ StatusReads(busLog) < MaxPolls
    /\ busLog' = Append(busLog, BusRead(addr, DEVICE_REG_CONFIG, 0, FALSE))
    /\ exc' = "IOError"
    /\ pc' = "Failed"
    /\ UNCHANGED <<channel, config, status, result, ret>>
    /\ UNCHANGED <<calls, main, codec>>

\* the result read from the high-threshold register
ReadResult_wrongRegister(w) ==
    /\ pc = "ReadingResult"
    /\ busLog' = Append(busLog, BusRead(addr, DEVICE_REG_HI_THRESH, w, TRUE))
    /\ result' = swap(w)
    /\ ret' = <<result'>>
    /\ pc' = "Done"
    /\ UNCHANGED <<channel, config, status, exc>>
    /\ UNCHANGED <<calls, main, codec>>

\* the swapped conversion word sign-extended from 16 bits before the return
ReadResult_signExtended(w) ==
    /\ pc = "ReadingResult"
    /\ busLog' = Append(busLog, BusRead(addr, DEVICE_REG_CONVERSION, w, TRUE))
    /\ result' = IF swap(w) >= 32768 THEN swap(w) - 65536 ELSE swap(w)
    /\ ret' = <<result'>>
    /\ pc' = "Done"
    /\ UNCHANGED <<channel, config, status, exc>>
    /\ UNCHANGED <<calls, main, codec>>

\* the conversion word returned in wire byte order
ReadResult_noSwap(w) ==
    /\ pc = "ReadingResult"
    /\ busLog' = Append(busLog, BusRead(addr, DEVICE_REG_CONVERSION, w, TRUE))
    /\ result' = w
    /\ ret' = <<result'>>
    /\ pc' = "Done"
    /\ UNCHANGED <<channel, config, status, exc>>
    /\ UNCHANGED <<calls, main, codec>>

\* result = swap(bus.read_word_data(addr, DEVICE_REG_CONVERSION)); return result
ReadResult(w) ==
    /\ pc = "ReadingResult"
    /\ busLog' = Append(busLog, BusRead(addr, DEVICE_REG_CONVERSION, w, TRUE))
    /\ result' = swap(w)
    /\ ret' = <<result'>>
    /\ pc' = "Done"
    /\ UNCHANGED <<channel, config, status, exc>>
    /\ UNCHANGED <<calls, main, codec>>

\* bus.read_word_data(addr, DEVICE_REG_CONVERSION) raises IOError
ReadResultRaises ==
    /\ pc = "ReadingResult"
    /\ busLog' = Append(busLog, BusRead(addr, DEVICE_REG_CONVERSION, 0, FALSE))
    /\ exc' = "IOError"
    /\ pc' = "Failed"
    /\ UNCHANGED <<channel, config, status, result, ret>>
    /\ UNCHANGED <<calls, main, codec>>

(***************************************************************************)
(* A test caller: calls readAdc with any channel, one call after another,  *)
(* with a bus stub whose record is cleared before each call                *)
(***************************************************************************)
Call(c) ==
    /\ pc = "Idle" \/ Returned
    /\ calls < MaxCalls
    /\ calls' = calls + 1
    /\ busLog' = <<>>
    /\ Enter(c)
    /\ UNCHANGED <<main, codec>>

Init ==
    /\ pc = "Idle"
    /\ channel = None
    /\ config = None
    /\ status = None
    /\ result = None
    /\ ret = <<>>
    /\ exc = None
    /\ busLog = <<>>
    /\ calls = 0
    /\ mainpc = "none"
    /\ i = 0
    /\ val = <<>>
    /\ s = <<>>
    /\ printed = 0
    /\ a = 0
    /\ wire = <<>>
    /\ back = <<>>

Next ==
    \/ \E c \in Channels : Call(c)
    \/ SanityCheck
    \/ BuildConfig
    \/ WriteConfig
    \/ WriteConfigRaises
    \/ \E w \in StatusWords : ReadStatus(w)
    \/ ReadStatusRaises
    \/ \E w \in ConvWords : ReadResult(w)
    \/ ReadResultRaises

Spec == Init /\ [][Next]_vars

(***************************************************************************)
(* The same call against a bus stub that never fails, reports the          *)
(* conversion complete on the first status read, and answers the           *)
(* conversion read with any 16-bit word                                    *)
(***************************************************************************)
ValidChannels == 0 .. 3
StubStatusWord == 128                       \* 0x0080 on the wire: idle

StubCall(c) ==
    /\ pc = "Idle"
    /\ calls' = calls + 1
    /\ busLog' = <<>>
    /\ Enter(c)
    /\ UNCHANGED <<main, codec>>

StubNext ==
    \/ \E c \in Channels : StubCall(c)
    \/ SanityCheck
    \/ BuildConfig
    \/ WriteConfig
    \/ ReadStatus(StubStatusWord)
    \/ pc = "ReadingResult" /\ \E w \in AllWords : ReadResult(w)

StubSpec == Init /\ [][StubNext]_vars

(***************************************************************************)
(* The byte swap alone, applied once in each direction to any 16-bit word  *)
(***************************************************************************)
CodecInit ==
    /\ a \in AllWords
    /\ wire = <<>>
    /\ back = <<>>
    /\ pc = "Idle"
    /\ channel = None
    /\ config = None
    /\ status = None
    /\ result = None
    /\ ret = <<>>
    /\ exc = None
    /\ busLog = <<>>
    /\ calls = 0
    /\ mainpc = "none"
    /\ i = 0
    /\ val = <<>>
    /\ s = <<>>
    /\ printed = 0

\* host order to wire order, as in write_word_data(..., swap(config))
ToWire ==
    /\ wire = <<>>
    /\ wire' = <<swap(a)>>
    /\ UNCHANGED <<a, back, drv, calls, main>>

\* wire order to host order, as in swap(bus.read_word_data(...))
FromWire ==
    /\ wire # <<>>
    /\ back = <<>>
    /\ back' = <<swap(wire[1])>>
    /\ UNCHANGED <<a, wire, drv, calls, main>>

CodecNext == ToWire \/ FromWire

CodecSpec == CodecInit /\ [][CodecNext]_vars

(***************************************************************************)
(* The __main__ block: banner, then the sampling loop inside               *)
(* try/except KeyboardInterrupt                                            *)
(***************************************************************************)
DemoStatusWords == {32768, 128}             \* 0x8000 busy, 0x0080 idle
DemoConvWords   == {4660, 65535}            \* 0x1234, 0xFFFF

DigitChar(d) == <<"0", "1", "2", "3", "4", "5", "6", "7", "8", "9">>[d + 1]

RECURSIVE Digits(_)
Digits(n) ==
    IF n < 10 THEN <<DigitChar(n)>>
    ELSE Append(Digits(n \div 10), DigitChar(n % 10))

RECURSIVE ZeroPad(_, _)
ZeroPad(d, width) ==
    IF Len(d) >= width THEN d ELSE ZeroPad(<<"0">> \o d, width)

\* "%05d" % v
Fmt05d(v) ==
    IF v < 0 THEN <<"-">> \o ZeroPad(Digits(-v), 4)
    ELSE ZeroPad(Digits(v), 5)

\* the prints of the banner and time.sleep(3), before the try block
Banner ==
    /\ mainpc = "banner"
    /\ mainpc' = "while"
    /\ UNCHANGED <<i, val, s, printed, drv, calls, codec>>

\* while True: s = "(Ctrl-C to exit) ADC Result: "; the for loop starts
WhileTop ==
    /\ mainpc = "while"
    /\ printed < MaxCycles
    /\ s' = <<>>
    /\ i' = 0
    /\ busLog' = <<>>
    /\ mainpc' = "for"
    /\ UNCHANGED <<val, printed, pc, channel, config, status, result, ret,
                   exc, calls, codec>>

\* the channels walked from 3 down to 0
ForCall_reversed ==
    /\ mainpc = "for"
    /\ i < 4
    /\ Enter(3 - i)
    /\ mainpc' = "call"
    /\ UNCHANGED <<i, val, s, printed, busLog, calls, codec>>

\* for i in range(0,4): val = readAdc(i)   -- the call is entered
ForCall ==
    /\ mainpc = "for"
    /\ i < 4
    /\ Enter(i)
    /\ mainpc' = "call"
    /\ UNCHANGED <<i, val, s, printed, busLog, calls, codec>>

\* readAdc returned: val = <returned value>; s += str(i) + ": %05d"%val + "  "
ForBody ==
    /\ mainpc = "call"
    /\ pc \in {"Rejected", "Done"}
    /\ val' = ret
    /\ s' = Append(s, <<Digits(i), Fmt05d(ret[1])>>)
    /\ i' = i + 1
    /\ pc' = "Idle"
    /\ mainpc' = "for"
    /\ UNCHANGED <<printed, channel, config, status, result, ret, exc,
                   busLog, calls, codec>>

\* range(0,4) is exhausted: print s
PrintLine ==
    /\ mainpc = "for"
    /\ i = 4
    /\ printed' = printed + 1
    /\ mainpc' = "sleep"
    /\ UNCHANGED <<i, val, s, drv, calls, codec>>

\* time.sleep(0.05)
Sleep ==
    /\ mainpc = "sleep"
    /\ mainpc' = "while"
    /\ UNCHANGED <<i, val, s, printed, drv, calls, codec>>

\* an exception out of readAdc is not a KeyboardInterrupt: no handler in
\* readAdc or __main__ matches, the interpreter prints a traceback and ends
Uncaught ==
    /\ mainpc = "call"
    /\ pc = "Failed"
    /\ exc # "KeyboardInterrupt"
    /\ mainpc' = "crashed"
    /\ UNCHANGED <<i, val, s, printed, drv, calls, codec>>

\* Ctrl-C anywhere inside the try block: except KeyboardInterrupt: sys.exit(0)
KeyboardInterrupt ==
    /\ mainpc \in {"while", "for", "call", "sleep"}
    /\ exc' = "KeyboardInterrupt"
    /\ pc' = IF InCall THEN "Failed" ELSE pc
    /\ mainpc' = "exited"
    /\ UNCHANGED <<i, val, s, printed, channel, config, status, result, ret,
                   busLog, calls, codec>>

DemoInit ==
    /\ mainpc = "banner"
    /\ i = 0
    /\ val = <<>>
    /\ s = <<>>
    /\ printed = 0
    /\ pc = "Idle"
    /\ channel = None
    /\ config = None
    /\ status = None
    /\ result = None
    /\ ret = <<>>
    /\ exc = None
    /\ busLog = <<>>
    /\ calls = 0
    /\ a = 0
    /\ wire = <<>>
    /\ back = <<>>

DemoNext ==
    \/ Banner
    \/ WhileTop
    \/ ForCall
    \/ SanityCheck
    \/ BuildConfig
    \/ WriteConfig
    \/ WriteConfigRaises
    \/ \E w \in DemoStatusWords : ReadStatus(w)
    \/ ReadStatusRaises
    \/ \E w \in DemoConvWords : ReadResult(w)
    \/ ReadResultRaises
    \/ ForBody
    \/ PrintLine
    \/ Sleep
    \/ Uncaught
    \/ KeyboardInterrupt

DemoSpec == DemoInit /\ [][DemoNext]_vars

(***************************************************************************)
(* The test caller against a responsive device: no access fails, and the   *)
(* device reports a conversion as complete after fewer than MaxPolls busy  *)
(* answers.  readAdc is straight-line blocking code, so each of its steps  *)
(* is taken once it is reached.                                            *)
(***************************************************************************)
BusyStatusWords == {33635, 32768}           \* 0x8363, 0x8000 on the wire
IdleStatusWords == {33763, 128}             \* 0x83E3, 0x0080 on the wire

LivePoll ==
    \/ /\ StatusReads(busLog) < MaxPolls - 1
       /\ \E w \in BusyStatusWords : ReadStatus(w)
    \/ \E w \in IdleStatusWords : ReadStatus(w)

LiveReadResult == \E w \in ConvWords : ReadResult(w)

LiveNext ==
    \/ \E c \in Channels : Call(c)
    \/ SanityCheck
    \/ BuildConfig
    \/ WriteConfig
    \/ LivePoll
    \/ LiveReadResult

\* every step of readAdc moves pc or adds an access to busLog
progress == <<pc, busLog>>

LiveSpec ==
    /\ Init
    /\ [][LiveNext]_vars
    /\ WF_progress(SanityCheck)
    /\ WF_progress(BuildConfig)
    /\ WF_progress(WriteConfig)
    /\ WF_progress(LivePoll)
    /\ WF_progress(LiveReadResult)

(***************************************************************************)
(* Properties                                                              *)
(***************************************************************************)
\* a 16-bit word with its two bytes exchanged, by arithmetic
ByteSwapped(w) == (w % 256) * 256 + (w \div 256)
Bit15(v) == (v \div 32768) % 2
WireIdle(w) == Bit15(ByteSwapped(w)) = 1
Signed16(v) == IF v >= 32768 THEN v - 65536 ELSE v

IsWrite(e)      == e.op = "write"
IsStatusRead(e) == e.op = "read" /\ e.reg = 1
IsConvRead(e)   == e.op = "read" /\ e.reg = 0
LastAccess      == busLog[Len(busLog)]

\* C1: a call with a channel outside {0,1,2,3} returns -1, the invalid-channel
\* outcome, and makes no register access at any point of the call.
C1_InvalidChannelNoBusAccess ==
    (pc # "Idle" /\ channel \notin {0, 1, 2, 3}) =>
        /\ busLog = <<>>
        /\ pc \in {"Validate", "Rejected"}
        /\ pc = "Rejected" => ret = <<-1>>

C1_Witness ==
    pc = "Rejected" /\ channel = -1 /\ ret = <<-1>> /\ busLog = <<>>

\* C2: with a bus that does not fail, the status is read until the first
\* answer whose bit 15 is 1 after the byte swap, and only then the conversion
\* register is read: k-1 busy answers and one idle answer give exactly k
\* status reads, and no conversion read comes before an idle status.
C2_PollsUntilIdle ==
    /\ \A k \in 1..Len(busLog) :
        /\ IsConvRead(busLog[k]) =>
              /\ k > 1
              /\ IsStatusRead(busLog[k - 1])
              /\ busLog[k - 1].ok
              /\ WireIdle(busLog[k - 1].word)
        /\ (IsStatusRead(busLog[k]) /\ busLog[k].ok /\ k < Len(busLog)) =>
              IF WireIdle(busLog[k].word)
              THEN IsConvRead(busLog[k + 1])
              ELSE IsStatusRead(busLog[k + 1])
    /\ (busLog # <<>> /\ IsStatusRead(LastAccess) /\ LastAccess.ok) =>
          pc = IF WireIdle(LastAccess.word) THEN "ReadingResult" ELSE "Polling"
    /\ pc = "Done" =>
          Cardinality({k \in 1..Len(busLog) : IsStatusRead(busLog[k])}) =
          1 + Cardinality({k \in 1..Len(busLog) :
                              IsStatusRead(busLog[k]) /\ ~WireIdle(busLog[k].word)})

C2_Witness ==
    /\ pc = "Done"
    /\ Len(busLog) = 4
    /\ IsStatusRead(busLog[2]) /\ busLog[2].word = 32768
    /\ IsStatusRead(busLog[3]) /\ busLog[3].word = 128
    /\ IsConvRead(busLog[4])

\* C3: a failed write of the config register ends the call with the IOError,
\* without a return value; no register is read afterwards and the write is
\* not repeated.
C3_WriteFailureIsFinal ==
    /\ Cardinality({k \in 1..Len(busLog) : IsWrite(busLog[k])}) <= 1
    /\ \A k \in 1..Len(busLog) :
          (IsWrite(busLog[k]) /\ ~busLog[k].ok) =>
              /\ k = Len(busLog)
              /\ pc = "Failed"
              /\ exc = "IOError"
              /\ ret = <<>>

C3_Witness ==
    /\ pc = "Failed"
    /\ exc = "IOError"
    /\ Len(busLog) = 1
    /\ IsWrite(busLog[1]) /\ ~busLog[1].ok

C5_ResultByteSwappedOnce ==
    pc = "Done" =>
        /\ ret # <<>>
        /\ ret[1] % 65536 = ByteSwapped(LastAccess.word)
        /\ LastAccess.word = 4660 => ret = <<13330>>

C5_Witness ==
    /\ pc = "Done"
    /\ IsConvRead(LastAccess) /\ LastAccess.word = 4660
    /\ ret = <<13330>>

\* C6: swapping twice gives back every 16-bit word, and one swap of a 16-bit
\* word is a 16-bit word.
C6_SwapInvolution ==
    /\ wire # <<>> => wire[1] \in 0 .. 65535
    /\ back # <<>> => back[1] = a

C6_Witness ==
    a = 4660 /\ wire = <<13330>> /\ back = <<4660>>

\* C7: for a valid channel the command word has bits 12-14 equal to
\* 4 + channel and bit 15 equal to 1.
C7_MuxAndStartBits ==
    pc \in {"ConfiguringWrite", "Polling", "ReadingResult", "Done", "Failed"} =>
        /\ (config \div 4096) % 8 = 4 + channel
        /\ (config \div 32768) % 2 = 1

C7_Witness ==
    pc = "ConfiguringWrite" /\ channel = 3 /\ (config \div 4096) % 8 = 7

\* C8: the write of a call goes to register 0x01 of device 0x48 and carries
\* the byte swap of 0x8000 | ((4 + channel) << 12) | 0x0200 | 0x0100 | 0x0080
\* | 0x0003; for channel 2 that is 0xE383, handed to the bus as 0x83E3.
C8_ConfigWordOnTheWire ==
    \A k \in 1..Len(busLog) :
        IsWrite(busLog[k]) =>
            /\ busLog[k].addr = 72
            /\ busLog[k].reg = 1
            /\ busLog[k].word =
                  ByteSwapped(32768 + (4 + channel) * 4096 + 512 + 256 + 128 + 3)
            /\ channel = 2 => busLog[k].word = 33763

C8_Witness ==
    /\ busLog # <<>>
    /\ channel = 2
    /\ busLog[1] = [op |-> "write", addr |-> 72, reg |-> 1, word |-> 33763,
                    ok |-> TRUE]

\* C9: a failed readAdc call never ends the sampling loop or the process.
C9_DriverErrorNeverEndsLoop ==
    exc = "IOError" => mainpc \notin {"crashed", "exited"}

\* C10: the accesses of a call with a valid channel are one write of the
\* config register, then one or more reads of the config register, then one
\* read of the conversion register, then the return; a failed access is the
\* last one and leaves the call failed.
C10_CallOrder ==
    LET n == Len(busLog) IN
    /\ pc \in {"Validate", "BuildConfig", "ConfiguringWrite"} => n = 0
    /\ n >= 1 => IsWrite(busLog[1]) /\ busLog[1].reg = 1
    /\ \A k \in 2..n : IsStatusRead(busLog[k]) \/ IsConvRead(busLog[k])
    /\ \A k \in 1..n : IsConvRead(busLog[k]) => k = n /\ k >= 3
    /\ \A k \in 1..n : ~busLog[k].ok =>
          k = n /\ pc = "Failed" /\ exc = "IOError"
    /\ pc = "Polling" => n >= 1
    /\ pc = "ReadingResult" => n >= 2 /\ IsStatusRead(busLog[n])
    /\ pc = "Done" =>
          n >= 3 /\ IsConvRead(busLog[n]) /\ busLog[n].ok /\ ret # <<>>
    /\ pc = "Failed" => n >= 1 /\ ~busLog[n].ok /\ ret = <<>>

C10_Witness ==
    /\ pc = "Done"
    /\ Len(busLog) = 3
    /\ IsWrite(busLog[1]) /\ IsStatusRead(busLog[2]) /\ IsConvRead(busLog[3])

\* C11: a failed read of the config register, on the first or a later pass of
\* the poll loop, ends the call with the IOError: it is the last access, the
\* conversion register is not read and no value is returned.
C11_StatusReadFailureIsFinal ==
    \A k \in 1..Len(busLog) :
        (IsStatusRead(busLog[k]) /\ ~busLog[k].ok) =>
            /\ k = Len(busLog)
            /\ pc = "Failed"
            /\ exc = "IOError"
            /\ ret = <<>>
            /\ \A j \in 1..Len(busLog) : ~IsConvRead(busLog[j])

C11_Witness ==
    /\ pc = "Failed"
    /\ Len(busLog) = 3
    /\ IsStatusRead(busLog[2]) /\ busLog[2].ok
    /\ IsStatusRead(busLog[3]) /\ ~busLog[3].ok

\* C12: with a valid channel, no failing access and a device that comes to
\* answer a status read with bit 15 set, the call reaches Done with a value.
C12_TerminatesWhenDeviceAnswersIdle ==
    (pc = "Validate" /\ channel \in {0, 1, 2, 3}) ~> (pc = "Done" /\ ret # <<>>)

C12_Witness ==
    /\ pc = "Done"
    /\ ret # <<>>
    /\ Len(busLog) = MaxPolls + 2
    /\ \A k \in 2..(MaxPolls + 1) : IsStatusRead(busLog[k])

\* C13: the poll loop has no iteration bound and no timeout outcome: after any
\* number of successful status reads that all show bit 15 = 0 the call is
\* still polling, with no value returned and no exception raised, and a
\* further status read follows.
AllBusySoFar ==
    /\ busLog # <<>>
    /\ IsWrite(busLog[1]) /\ busLog[1].ok
    /\ \A k \in 2..Len(busLog) :
          IsStatusRead(busLog[k]) /\ busLog[k].ok /\ ~WireIdle(busLog[k].word)

C13_NoPollBound ==
    AllBusySoFar =>
        /\ pc = "Polling"
        /\ exc = None
        /\ ret = <<>>
        /\ Len(busLog) - 1 < MaxPolls =>
              ENABLED (\E w \in StatusWords : ReadStatus(w))

C13_Witness ==
    AllBusySoFar /\ pc = "Polling" /\ Len(busLog) - 1 = MaxPolls

\* C14: for a valid channel the field encodings added into the command word
\* have no bit in common, so the sum is their bitwise OR, fits in 16 bits,
\* and the channel term carries into no other field.
FieldEncodings(c) == <<32768, 16384, c * 4096, 512, 256, 128, 0, 0, 0, 3>>

RECURSIVE OrAll(_)
OrAll(f) == IF f = <<>> THEN 0 ELSE BitOr(Head(f), OrAll(Tail(f)))

C14_FieldsDisjoint ==
    pc \in {"ConfiguringWrite", "Polling", "ReadingResult", "Done", "Failed"} =>
        LET f == FieldEncodings(channel) IN
        /\ \A m, n \in 1..Len(f) : m # n => BitAnd(f[m], f[n]) = 0
        /\ config = OrAll(f)
        /\ config \in 0 .. 65535
        /\ (config \div 4096) % 4 = channel
        /\ (config \div 16384) = 3
        /\ config % 4096 = 899

C14_Witness ==
    pc = "ConfiguringWrite" /\ channel = 3 /\ config = 62339

\* C15: over any sequence of calls every access goes to device 0x48; only the
\* config register (0x01) is written, only the config and conversion (0x00)
\* registers are read, and the threshold registers 0x02 and 0x03 are never
\* touched.
C15_RegistersTouched ==
    \A k \in 1..Len(busLog) :
        /\ busLog[k].addr = 72
        /\ busLog[k].reg \notin {2, 3}
        /\ busLog[k].op = "write" => busLog[k].reg = 1
        /\ busLog[k].op = "read" => busLog[k].reg \in {0, 1}

C15_Witness ==
    /\ calls = 2
    /\ pc = "Done"
    /\ \E k \in 1..Len(busLog) : busLog[k].op = "write" /\ busLog[k].reg = 1
    /\ \E k \in 1..Len(busLog) : busLog[k].op = "read" /\ busLog[k].reg = 1
    /\ \E k \in 1..Len(busLog) : busLog[k].op = "read" /\ busLog[k].reg = 0

\* C16: a call keeps nothing from the calls before it: where it stands, what
\* it has put on the bus and what it returns or raises are fixed by its
\* channel and by the answers the bus has given to this call, whether it is
\* the first call or follows a successful, failed or rejected one.
ExpectedWord(c) == ByteSwapped(32768 + 16384 + c * 4096 + 512 + 256 + 128 + 3)

ExpectedPc(c, log) ==
    IF log = <<>>
    THEN IF c \in {0, 1, 2, 3}
         THEN {"Validate", "BuildConfig", "ConfiguringWrite"}
         ELSE {"Validate", "Rejected"}
    ELSE LET e == log[Len(log)] IN
         IF ~e.ok THEN {"Failed"}
         ELSE IF IsWrite(e) THEN {"Polling"}
         ELSE IF IsConvRead(e) THEN {"Done"}
         ELSE IF WireIdle(e.word) THEN {"ReadingResult"} ELSE {"Polling"}

ExpectedAccess(c, log, k) ==
    IF k = 1
    THEN [op |-> "write", addr |-> 72, reg |-> 1, word |-> ExpectedWord(c)]
    ELSE LET p == log[k - 1] IN
         [op |-> "read", addr |-> 72,
          reg |-> IF IsStatusRead(p) /\ WireIdle(p.word) THEN 0 ELSE 1,
          word |-> log[k].word]

C16_CallDependsOnInputsOnly ==
    pc # "Idle" =>
        /\ pc \in ExpectedPc(channel, busLog)
        /\ \A k \in 1..Len(busLog) :
              /\ [op |-> busLog[k].op, addr |-> busLog[k].addr,
                  reg |-> busLog[k].reg, word |-> busLog[k].word]
                     = ExpectedAccess(channel, busLog, k)
              /\ k > 1 => busLog[k - 1].ok /\ ~IsConvRead(busLog[k - 1])
        /\ ret = IF pc = "Rejected" THEN <<-1>>
                 ELSE IF pc = "Done" THEN <<ByteSwapped(LastAccess.word)>>
                 ELSE <<>>
        /\ exc = IF pc = "Failed" THEN "IOError" ELSE None

C16_Witness ==
    /\ calls = 2
    /\ pc = "Done"
    /\ Len(busLog) = 4
    /\ ret = <<ByteSwapped(LastAccess.word)>>

\* C17: in a sample cycle of the demo the calls for channels 0, 1, 2, 3 follow
\* one another: the accesses of one call are all made before the write of the
\* next, and every conversion read comes after the config write of its own
\* call with no other write in between.
WritesBefore(k) == Cardinality({j \in 1..(k - 1) : IsWrite(busLog[j])})
ConvReadsBefore(k) == Cardinality({j \in 1..(k - 1) : IsConvRead(busLog[j])})

C17_ChannelsInOrder ==
    /\ \A k \in 1..Len(busLog) :
        /\ IsWrite(busLog[k]) =>
              /\ WritesBefore(k) <= 3
              /\ busLog[k].word = ExpectedWord(WritesBefore(k))
              /\ ConvReadsBefore(k) = WritesBefore(k)
              /\ k > 1 => IsConvRead(busLog[k - 1]) /\ busLog[k - 1].ok
        /\ busLog[k].op = "read" => WritesBefore(k) >= 1
        /\ IsConvRead(busLog[k]) => ConvReadsBefore(k) = WritesBefore(k) - 1
    /\ mainpc = "call" =>
          /\ channel = i
          /\ WritesBefore(Len(busLog) + 1) \in {i, i + 1}
    /\ mainpc = "for" =>
          /\ WritesBefore(Len(busLog) + 1) = i
          /\ ConvReadsBefore(Len(busLog) + 1) = i

C17_Witness ==
    /\ mainpc = "sleep"
    /\ WritesBefore(Len(busLog) + 1) = 4
    /\ ConvReadsBefore(Len(busLog) + 1) = 4
    /\ busLog[1].word = ExpectedWord(0)
    /\ IsConvRead(LastAccess)

\* C18: a value returned after a conversion lies in 0..65535 for every
\* conversion word, so it is never the -1 that a channel outside {0,1,2,3}
\* gets: a return of -1 always means an invalid channel.
C18_SentinelDistinct ==
    /\ pc = "Done" => ret # <<-1>> /\ ret[1] >= 0 /\ ret[1] <= 65535
    /\ pc = "Rejected" => ret = <<-1>>
    /\ ret = <<-1>> => pc = "Rejected" /\ channel \notin {0, 1, 2, 3}

C18_Witness ==
    /\ pc = "Done"
    /\ channel = 3
    /\ IsConvRead(LastAccess) /\ LastAccess.word = 65535
    /\ ret # <<-1>>

====
